---- MODULE Spec2Model ----
(***************************************************************************)
(* PitchToMidi.ino: loop() scans the FFT spectrum for the loudest band and *)
(* hands the band's two edge frequencies to findMidiNoteFromPitches, which *)
(* scans the pitchFrequency table for the nearest MIDI note.               *)
(*                                                                         *)
(* Frequencies are floats in the sketch.  A table entry is held here as an *)
(* integer count of 1/Scale Hz, so that entries between two whole Hz exist *)
(* and the float -> int truncation of line 129 is a real operation.  The   *)
(* band edges b * sampleRate / fftSize are held as their numerator over    *)
(* fftSize (the quotient is exact in a float: fftSize is a power of two).  *)
(***************************************************************************)
EXTENDS Integers, Sequences, FiniteSets

\* ------------------------------------------------------------------ bounds
\* Number of table entries scanned by the finder (127 in the sketch).
NumNotes == 4
\* Resolution of a table entry: an entry e stands for e / Scale Hz.
Scale == 2
\* Table entries the tables are built from, in 1/Scale Hz.
PitchValues == {0, 2, 3, 4, 6}
\* Values of the int parameter lowPitch, in Hz.
LowPitches == {-32000, 1, 2, 4, 32002}
\* highPitch is lowPitch plus one of these (the finder does not validate
\* lowPitch <= highPitch, so one offset is negative).
HighOffsets == {-1, 0, 2}
\* Amplitudes an entry of the spectrum can take.
SampleLevels == {-7, 0, 150000, 150001, 200000}
\* Ascending tables used when the whole sketch runs: entry x is
\* base + x * step (in 1/Scale Hz).
SketchBases == {16}
SketchSteps == {131, 2000}

\* ------------------------------------------------------- program constants
sampleRate == 8400
fftSize == 128
spectrumSize == fftSize \div 2
threshold == 150000
\* initial value of lastDiff
InitLastDiff == 32000
\* initial value of desiredMidiNote, the error sentinel
NoNote == 0 - 1

VARIABLES
    pitchFrequency,   \* the table: [0..NumNotes-1 -> entry in 1/Scale Hz]
    lowPitch,         \* finder parameter (int, Hz)
    highPitch,        \* finder parameter (int, Hz)
    x,                \* finder loop index
    lastDiff,         \* finder local
    desiredMidiNote,  \* finder local, the value returned
    serial,           \* items written to Serial since the pass / call began
    pc,               \* "loop", "scan", "find", "ret"
    prev,             \* <<>> or <<highPitch, result>> of the previous call
    b,                \* loop(): band index of the scan
    loudestSample,    \* loop(): loudest sample so far
    freqLow,          \* loop(): numerator over fftSize of the float freqLow
    freqHigh,         \* loop(): numerator over fftSize of the float freqHigh
    closestNote       \* loop(): the finder's result

vars == <<pitchFrequency, lowPitch, highPitch, x, lastDiff, desiredMidiNote,
          serial, pc, prev, b, loudestSample, freqLow, freqHigh, closestNote>>

finderVars == <<lowPitch, highPitch, x, lastDiff, desiredMidiNote>>
loopVars == <<b, loudestSample, freqLow, freqHigh, closestNote>>

\* ------------------------------------------------------------------ helpers
\* Arduino's abs macro: ((v) > 0 ? (v) : -(v))
Abs(v) == IF v > 0 THEN v ELSE 0 - v

\* C++ conversion of the float num / den to int: truncation toward zero.
ToInt(num, den) == IF num >= 0 THEN num \div den ELSE 0 - ((0 - num) \div den)

\* Items written to Serial are pairs <<kind, value>>:
\*   <<0, n>> a text of n characters, <<1, h>> a float printed with two
\*   decimals (h is the value in hundredths, rounded half away from zero as
\*   Print::printFloat does), <<2, n>> an int.
PrintText(n) == <<0, n>>
PrintFloat(num, den) ==
    <<1, IF num >= 0 THEN (200 * num + den) \div (2 * den)
                     ELSE 0 - ((200 * (0 - num) + den) \div (2 * den))>>
PrintInt(n) == <<2, n>>

\* ------------------------------------------------- findMidiNoteFromPitches
\* line 125: pitchFrequency[x] >= lowPitch && pitchFrequency[x] <= highPitch
InRangeStrict(e, lowP, highP) == e > Scale * lowP /\ e <= Scale * highP
InRange(e, lowP, highP) == e >= Scale * lowP /\ e <= Scale * highP

\* line 129: int diff = abs(lowPitch - pitchFrequency[x]);
\* the float difference is truncated by the conversion to int.
DiffFromHigh(e, lowP, highP) == ToInt(Abs(Scale * highP - e), Scale)
Diff(e, lowP, highP) == ToInt(Abs(Scale * lowP - e), Scale)

\* line 131: if (diff < lastDiff)
SmallerOrEqual(diff, last) == diff <= last
Smaller(diff, last) == diff < last

\* line 132: desiredMidiNote = x;
NoteOneBased(i) == i + 1
NoteAt(i) == i

\* line 135: lastDiff = diff; (executed by every iteration)
SaveDiffIfSmaller(diff, last) == IF diff < last THEN diff ELSE last
SaveDiff(diff, last) == diff

\* One iteration of the for loop, lines 124-136.
FindStep ==
    /\ pc = "find"
    /\ x < NumNotes
    /\ LET e == pitchFrequency[x]
           diff == Diff(e, lowPitch, highPitch)
       IN  /\ serial' = IF InRange(e, lowPitch, highPitch)
                        THEN Append(serial, PrintFloat(e, Scale))
                        ELSE serial
           /\ desiredMidiNote' = IF Smaller(diff, lastDiff)
                                 THEN NoteAt(x)
                                 ELSE desiredMidiNote
           /\ lastDiff' = SaveDiff(diff, lastDiff)
    /\ x' = x + 1
    /\ UNCHANGED <<pitchFrequency, lowPitch, highPitch, pc, prev, loopVars>>

\* Loop exit and line 138: return desiredMidiNote;
FindExit ==
    /\ pc = "find"
    /\ x = NumNotes
    /\ pc' = "ret"
    /\ UNCHANGED <<pitchFrequency, finderVars, serial, prev, loopVars>>

\* ------------------------------------------------------------------- loop()
\* lines 92, 93: the two edges of band i
BandLow(i) == i * sampleRate
BandHighIntDiv(i) == (((i + 1) * sampleRate) \div fftSize) * fftSize
BandHigh(i) == (i + 1) * sampleRate

\* lines 77-84: an analysis is available; the spectrum is read and the
\* locals of the scan are initialised.  (A pass in which available() is
\* false changes nothing.)
LoopRead ==
    /\ pc = "loop"
    /\ pc' = "scan"
    /\ b' = 0
    /\ loudestSample' = 0
    /\ freqLow' = 0
    /\ freqHigh' = 0
    /\ serial' = <<>>
    /\ UNCHANGED <<pitchFrequency, finderVars, prev, closestNote>>

\* lines 86-95, one iteration.  spectrum[b] is data of the analyzer; each
\* entry is read by exactly one iteration, where it is drawn.
ScanBand ==
    /\ pc = "scan"
    /\ b < spectrumSize
    /\ \E s \in SampleLevels :
          IF s >= loudestSample
          THEN /\ loudestSample' = s
               /\ freqLow' = BandLow(b)
               /\ freqHigh' = BandHigh(b)
          ELSE UNCHANGED <<loudestSample, freqLow, freqHigh>>
    /\ b' = b + 1
    /\ UNCHANGED <<pitchFrequency, finderVars, serial, pc, prev, closestNote>>

\* lines 99-108: after the scan; above the threshold the band and the
\* amplitude are printed and the finder is called, its float arguments
\* converted to the int parameters and its locals initialised (lines
\* 120-124).
ScanDone ==
    /\ pc = "scan"
    /\ b = spectrumSize
    /\ IF loudestSample > threshold
       THEN /\ serial' = serial \o <<PrintFloat(freqLow, fftSize), PrintText(1),
                                     PrintFloat(freqHigh, fftSize), PrintText(4),
                                     PrintInt(loudestSample), PrintText(4)>>
            /\ lowPitch' = ToInt(freqLow, fftSize)
            /\ highPitch' = ToInt(freqHigh, fftSize)
            /\ lastDiff' = InitLastDiff
            /\ desiredMidiNote' = NoNote
            /\ x' = 0
            /\ pc' = "find"
       ELSE /\ pc' = "loop"
            /\ UNCHANGED <<finderVars, serial>>
    /\ UNCHANGED <<pitchFrequency, prev, loopVars>>

\* lines 108-109: the result is stored and printed; the pass ends.
LoopPrint ==
    /\ pc = "ret"
    /\ closestNote' = desiredMidiNote
    /\ serial' = Append(serial, PrintInt(desiredMidiNote))
    /\ pc' = "loop"
    /\ UNCHANGED <<pitchFrequency, finderVars, prev, b, loudestSample,
                   freqLow, freqHigh>>

\* --------------------------------------------------- the finder on its own
\* A second call with the same lowPitch and table and another highPitch;
\* the first call's highPitch and result are remembered in prev.
Recall ==
    /\ pc = "ret"
    /\ prev = <<>>
    /\ \E off \in HighOffsets :
          /\ lowPitch + off # highPitch
          /\ highPitch' = lowPitch + off
    /\ prev' = <<highPitch, desiredMidiNote>>
    /\ lastDiff' = InitLastDiff
    /\ desiredMidiNote' = NoNote
    /\ x' = 0
    /\ serial' = <<>>
    /\ pc' = "find"
    /\ UNCHANGED <<pitchFrequency, lowPitch, loopVars>>

Tables == [0 .. NumNotes - 1 -> PitchValues]

\* The finder entered with any table and any pair of parameters.
Init ==
    /\ pitchFrequency \in Tables
    /\ lowPitch \in LowPitches
    /\ \E off \in HighOffsets : highPitch = lowPitch + off
    /\ x = 0
    /\ lastDiff = InitLastDiff
    /\ desiredMidiNote = NoNote
    /\ serial = <<>>
    /\ pc = "find"
    /\ prev = <<>>
    /\ b = 0
    /\ loudestSample = 0
    /\ freqLow = 0
    /\ freqHigh = 0
    /\ closestNote = NoNote

Next == FindStep \/ FindExit \/ Recall

Spec == Init /\ [][Next]_vars

SketchTables ==
    {[i \in 0 .. NumNotes - 1 |-> base + i * step] :
        base \in SketchBases, step \in SketchSteps}

\* The sketch after setup(), about to run loop().
SketchInit ==
    /\ pitchFrequency \in SketchTables
    /\ lowPitch = 0
    /\ highPitch = 0
    /\ x = 0
    /\ lastDiff = InitLastDiff
    /\ desiredMidiNote = NoNote
    /\ serial = <<>>
    /\ pc = "loop"
    /\ prev = <<>>
    /\ b = 0
    /\ loudestSample = 0
    /\ freqLow = 0
    /\ freqHigh = 0
    /\ closestNote = NoNote

SketchNext ==
    LoopRead \/ ScanBand \/ ScanDone \/ FindStep \/ FindExit \/ LoopPrint

SketchSpec == SketchInit /\ [][SketchNext]_vars

\* ================================================================ properties
Idx == 0 .. NumNotes - 1

\* |lowPitch - table[k]| as a real number, in 1/Scale Hz
RealDiff(k) == IF Scale * lowPitch >= pitchFrequency[k]
               THEN Scale * lowPitch - pitchFrequency[k]
               ELSE pitchFrequency[k] - Scale * lowPitch

\* the same difference as the int the finder compares, in Hz
IntDiff(k) == RealDiff(k) \div Scale

SetMin(S) == CHOOSE m \in S : \A n \in S : m <= n
SetMax(S) == CHOOSE m \in S : \A n \in S : m >= n

NearestSet == {i \in Idx : \A k \in Idx : RealDiff(i) <= RealDiff(k)}

NonDecreasing == \A k \in 1 .. NumNotes - 1 :
                    pitchFrequency[k - 1] <= pitchFrequency[k]
StrictlyIncreasing == \A k \in 1 .. NumNotes - 1 :
                         pitchFrequency[k - 1] < pitchFrequency[k]
AboveEveryEntry == \A k \in Idx : Scale * lowPitch > pitchFrequency[k]

\* C1: the index returned is one whose |lowBound - table[i]| is the minimum
\* over the whole table, for every table, monotonic or not.  (Stated for the
\* calls whose first difference is below the initial value of lastDiff; C2
\* is about the others.)
C1_ReturnsNearest ==
    (pc = "ret" /\ IntDiff(0) < InitLastDiff) => desiredMidiNote \in NearestSet

\* C2: the finder never returns the sentinel -1 for a non-empty table.
C2_NeverSentinel ==
    pc = "ret" => desiredMidiNote # 0 - 1

\* C2 (amended): the finder returns -1 exactly when the first difference is
\* not below 32000 and no later difference is strictly smaller than the one
\* before it; so it never returns -1 when the first difference is below 32000.
C2_SentinelOnlyWhenFar ==
    pc = "ret" =>
        ( desiredMidiNote = 0 - 1
          <=> ( /\ IntDiff(0) >= 32000
                /\ \A k \in 1 .. NumNotes - 1 : IntDiff(k) >= IntDiff(k - 1) ) )

C2_Witness ==
    pc = "ret" /\ desiredMidiNote = 0 - 1 /\ IntDiff(0) >= 32000

\* C3: when two or more entries are equally close to lowBound and that
\* distance is the minimum, the finder returns the lowest of those indices.
\* (Stated for the calls whose first difference is below the initial value
\* of lastDiff.)
C3_TieReturnsLowest ==
    (pc = "ret" /\ IntDiff(0) < InitLastDiff /\ Cardinality(NearestSet) >= 2)
        => desiredMidiNote = SetMin(NearestSet)

\* C4: the value returned is an index of the table or the sentinel -1.
C4_ResultInRange ==
    pc = "ret" => desiredMidiNote \in Idx \cup {0 - 1}

C4_Witness ==
    pc = "ret" /\ desiredMidiNote = NumNotes - 1

\* C5: if lowBound equals table[i] and no lower index is as close, the
\* finder returns i whatever the entries above i are.
C5_ExactMatchReturned ==
    pc = "ret" =>
        \A i \in Idx :
            ( /\ pitchFrequency[i] = Scale * lowPitch
              /\ \A k \in 0 .. i - 1 : RealDiff(k) > 0 )
            => desiredMidiNote = i

\* C6: a call has no side effects: it emits nothing on the serial output and
\* leaves the table unchanged.
C6_NoSideEffects ==
    pc \in {"find", "ret"} => serial = <<>>

RECURSIVE EchoUpTo(_)
EchoUpTo(n) ==
    IF n = 0 THEN <<>>
    ELSE LET e == pitchFrequency[n - 1]
         IN  EchoUpTo(n - 1) \o
             ( IF Scale * lowPitch <= e /\ e <= Scale * highPitch
               THEN <<PrintFloat(e, Scale)>>
               ELSE <<>> )

\* C6 (amended): a call leaves the table unchanged, and what it writes to the
\* serial output is exactly, in index order, each table entry that lies in
\* [lowBound, highBound] (nothing when no entry lies there).
C6_OnlyEchoesRange ==
    /\ [](pc \in {"find", "ret"} => serial = EchoUpTo(x))
    /\ [][pitchFrequency' = pitchFrequency]_vars

C6_Witness ==
    pc = "ret" /\ Len(serial) >= 2 /\ Len(serial) < NumNotes

\* C7: the index returned does not depend on highBound: two calls with the
\* same lowBound and table and two different highBounds return the same.
C7_HighPitchIgnored ==
    (pc = "ret" /\ prev # <<>>) => desiredMidiNote = prev[2]

C7_Witness ==
    /\ pc = "ret"
    /\ prev # <<>>
    /\ prev[1] # highPitch
    /\ desiredMidiNote \in Idx

\* C8: freqLow and freqHigh are the two edges of one same band (or both
\* still 0), and every pair passed to the finder, after the conversion to
\* int, satisfies lowBound <= highBound.
SameBand ==
    \E i \in 0 .. spectrumSize - 1 :
        freqLow = i * sampleRate /\ freqHigh = (i + 1) * sampleRate

C8_BoundsOrdered ==
    /\ (freqLow = 0 /\ freqHigh = 0) \/ SameBand
    /\ pc = "find" =>
          /\ SameBand
          /\ lowPitch = freqLow \div fftSize
          /\ highPitch = freqHigh \div fftSize
          /\ lowPitch <= highPitch

C8_Witness ==
    /\ pc = "find"
    /\ x = 0
    /\ lowPitch * fftSize # freqLow
    /\ highPitch * fftSize # freqHigh

MinUpTo(n) == SetMin({InitLastDiff} \cup {IntDiff(k) : k \in 0 .. n - 1})

\* C9: after each iteration the running best difference is the minimum of
\* the initial value and the differences seen so far, and the candidate is
\* the lowest index that attains it.  (Stated for the calls whose first
\* difference is below the initial value.)
C9_RunningMinimum ==
    (pc = "find" /\ x > 0 /\ IntDiff(0) < InitLastDiff) =>
        /\ lastDiff = MinUpTo(x)
        /\ MinUpTo(x) < InitLastDiff =>
              desiredMidiNote =
                  SetMin({k \in 0 .. x - 1 : IntDiff(k) = MinUpTo(x)})

PredDiff(k) == IF k = 0 THEN 32000 ELSE IntDiff(k - 1)
Drops == {k \in Idx : IntDiff(k) < PredDiff(k)}
LastDrop == IF Drops = {} THEN 0 - 1 ELSE SetMax(Drops)
FirstMin == SetMin({i \in Idx : \A k \in Idx : IntDiff(i) <= IntDiff(k)})

====
